---- MODULE Spec2Model ----
(***************************************************************************)
(* Model of scraple.py: the neighbour-feed scraper that reads the paged    *)
(* "new posts" feed, extracts blog links, asks the Notion database whether *)
(* each URL is already recorded and creates a page for the ones that are   *)
(* not.                                                                    *)
(*                                                                         *)
(* Strings are modelled as sequences of tokens.  An href is a sequence of  *)
(* URL tokens in which the host "blog.naver.com", "/" and "?" are tokens   *)
(* of their own, so that the substring tests and the splits of parse_posts *)
(* are computed on the sequence.  A link text is a sequence of characters. *)
(***************************************************************************)
EXTENDS Integers, Sequences, FiniteSets, TLC

\* ------------------------------------------------------------------ bounds
MaxLinks == 2        \* hyperlinks in one page of markup

\* ------------------------------------------------------- program constants
max_page == 5        \* main: pages 1..max_page are scanned
TitleMax == 200      \* parse_posts: title[:200]

Host == "blog.naver.com"
WS == {" ", "\t", "\n"}

\* --------------------------------------------------------- string helpers
Min(a, b) == IF a < b THEN a ELSE b

\* first index of token t in s, 0 when absent
IndexOf(s, t) ==
  IF \E i \in 1..Len(s) : s[i] = t
  THEN CHOOSE i \in 1..Len(s) : s[i] = t /\ \A j \in 1..(i - 1) : s[j] # t
  ELSE 0

\* s.split(t)[0]
BeforeFirst(s, t) ==
  IF IndexOf(s, t) = 0 THEN s ELSE SubSeq(s, 1, IndexOf(s, t) - 1)

\* "blog.naver.com" in s
HasHost(s) == \E i \in 1..Len(s) : s[i] = Host

\* position of the first "blog.naver.com/" in s, 0 when absent
MarkerAt(s) ==
  IF \E i \in 1..(Len(s) - 1) : s[i] = Host /\ s[i + 1] = "/"
  THEN CHOOSE i \in 1..(Len(s) - 1) :
         /\ s[i] = Host /\ s[i + 1] = "/"
         /\ \A j \in 1..(i - 1) : ~(s[j] = Host /\ s[j + 1] = "/")
  ELSE 0

\* "blog.naver.com/" in s
HasMarker(s) == MarkerAt(s) # 0

\* s.split("blog.naver.com/")[1], for s that holds the marker: what follows
\* the first marker, up to the next one
AfterMarker(s) ==
  LET rest == SubSeq(s, MarkerAt(s) + 2, Len(s))
  IN  IF MarkerAt(rest) = 0 THEN rest ELSE SubSeq(rest, 1, MarkerAt(rest) - 1)

\* href.split("?")[0]
CleanUrl(href) == BeforeFirst(href, "?")

\* a.get_text(strip=True) of a link with one text node
Strip(t) ==
  IF \A i \in 1..Len(t) : t[i] \in WS
  THEN << >>
  ELSE LET lo == CHOOSE i \in 1..Len(t) :
                   t[i] \notin WS /\ \A j \in 1..(i - 1) : t[j] \in WS
           hi == CHOOSE i \in 1..Len(t) :
                   t[i] \notin WS /\ \A j \in (i + 1)..Len(t) : t[j] \in WS
       IN  SubSeq(t, lo, hi)

\* a scan that keeps the whole text as the title
TruncateNone(t) == t

\* title[:200]
Truncate(t) == SubSeq(t, 1, Min(Len(t), TitleMax))

\* the blogger id of a cleaned url
Blogger(url) ==
  IF HasMarker(url) THEN BeforeFirst(AfterMarker(url), "/") ELSE << >>

\* ------------------------------------------------------------ parse_posts
\* a link passes the two `continue` tests of the scan
Retained(a) == HasHost(a.href) /\ Strip(a.text) # << >>

Item(a) ==
  [title |-> Truncate(Strip(a.text)),
   url |-> CleanUrl(a.href),
   blogger |-> Blogger(CleanUrl(a.href))]

RECURSIVE Results(_)
Results(html) ==
  IF html = << >> THEN << >>
  ELSE LET a == Head(html)
       IN  IF Retained(a) THEN <<Item(a)>> \o Results(Tail(html))
           ELSE Results(Tail(html))

\* a scan that returns results as collected
UniqueKeepAll(results) == results

\* a mapping that keeps the first value written under a key
UniqueFirstWins(results) ==
  LET n == Len(results)
      IsFirst(i) == \A j \in 1..(i - 1) : results[j].url # results[i].url
      keep == SelectSeq([i \in 1..n |->
                           [item |-> results[i], first |-> IsFirst(i)]],
                        LAMBDA e : e.first)
  IN  [k \in 1..Len(keep) |-> keep[k].item]

\* unique[item["url"]] = item for every item, then list(unique.values()):
\* keys in the order of their first insertion, each with its last value
Unique(results) ==
  LET n == Len(results)
      IsFirst(i) == \A j \in 1..(i - 1) : results[j].url # results[i].url
      LastOf(i) == CHOOSE k \in 1..n :
                     /\ results[k].url = results[i].url
                     /\ \A j \in (k + 1)..n : results[j].url # results[i].url
      RECURSIVE Build(_)
      Build(i) ==
        IF i > n THEN << >>
        ELSE IF IsFirst(i) THEN <<results[LastOf(i)]>> \o Build(i + 1)
             ELSE Build(i + 1)
  IN  Build(1)

parse_posts(html) == Unique(Results(html))

\* ------------------------------------------------------------------ inputs
Scheme == <<"https:", "/", "/">>
Long(n) == [i \in 1..n |-> "x"]

\* <a href="https://blog.naver.com/alice/123?from=home">Hi</a>
LinkQuery ==
  [href |-> Scheme \o <<Host, "/", "alice", "/", "123", "?", "from=home">>,
   text |-> <<"H", "i">>]
\* <a href="https://blog.naver.com/alice/123"> Hi2\n</a>
LinkPlain ==
  [href |-> Scheme \o <<Host, "/", "alice", "/", "123">>,
   text |-> <<" ", "H", "i", "2", "\n">>]
\* a link of 201 visible characters, padded with white space
LinkLong ==
  [href |-> Scheme \o <<Host, "/", "bob", "/", "7">>,
   text |-> <<" ">> \o Long(TitleMax) \o <<"y", " ">>]
\* a link of exactly 200 visible characters
LinkFull ==
  [href |-> Scheme \o <<Host, "/", "bob", "/", "7", "?", "x=1">>,
   text |-> Long(TitleMax - 1) \o <<"z">>]
\* the host occurs in the query string only
LinkRedirect ==
  [href |-> Scheme \o <<"example.com", "/", "r", "?", "u=", Host, "/", "carol">>,
   text |-> <<"A", "d">>]
\* a blog link whose text is white space only (an image link)
LinkBlank ==
  [href |-> Scheme \o <<Host, "/", "alice", "/", "123">>,
   text |-> <<" ", "\n">>]
\* a link to another site
LinkOther ==
  [href |-> Scheme \o <<"example.com", "/", "x">>,
   text |-> <<"N", "o">>]

Links ==
  {LinkQuery, LinkPlain, LinkLong, LinkFull, LinkRedirect, LinkBlank, LinkOther}

\* the markups parse_posts is checked on: up to MaxLinks hyperlinks
Markups == UNION {[1..n -> Links] : n \in 0..MaxLinks}

\* the markups the feed serves in a run of main
Feed ==
  {<< >>, <<LinkQuery, LinkPlain>>, <<LinkLong>>, <<LinkBlank, LinkOther>>,
   <<LinkPlain, LinkFull>>}

FeedUrls == {CleanUrl(LinkPlain.href), CleanUrl(LinkLong.href)}

EnvValues == {"unset", "", "v"}

\* what requests.get can come back with: a transport error or a status
NoResponse == [err |-> TRUE, status |-> 0, body |-> "none"]
Response(st, b) == [err |-> FALSE, status |-> st, body |-> b]
FetchStatuses == {200, 404, 503}
QueryResponses ==
  {NoResponse, Response(429, "error")}
    \cup {Response(200, b) : b \in {"hit", "empty", "nokey", "notjson"}}
CreateResponses == {NoResponse, Response(200, "page"), Response(400, "error")}

\* ------------------------------------------------------------------- state
VARIABLES
  pc,          \* position of the process
  env,         \* NAVER_COOKIE, NOTION_TOKEN, NOTION_DB_ID as os.getenv saw them
  page,        \* main: loop variable
  html,        \* main: markup of the page just fetched
  posts,       \* main: parse_posts(html)
  idx,         \* main: position of p in posts
  new_count,   \* main: counter
  store,       \* URLs that have a record in the Notion database
  lastCall,    \* the most recent external call and its outcome
  saved,       \* number of creation calls answered with success
  savedUrls,   \* URLs of those calls
  creates,     \* number of creation calls issued
  answers,     \* "none", "allTrue" or "mixed": what notion_page_exists returned
  faithful,    \* every existence query so far got the store's true answer
  fetchFailed, \* some fetch_page call of this run raised
  fetched      \* the pages fetch_page was called for

vars ==
  <<pc, env, page, html, posts, idx, new_count, store, lastCall, saved,
    savedUrls, creates, answers, faithful, fetchFailed, fetched>>

\* kind: "fetch", "query" or "create"; status: the HTTP status, 0 for a
\* transport error; ok: the call did what it was for; answer: what
\* notion_page_exists returned; known: the store held the url at the call;
\* queried: the status of the existence query a creation call followed
NoCall ==
  [kind |-> "none", page |-> 0, url |-> << >>, title |-> << >>,
   blogger |-> << >>, status |-> 0, ok |-> FALSE, answer |-> FALSE,
   known |-> FALSE, queried |-> 0]

\* ------------------------------------------------------ module level checks
\* not NAVER_COOKIE or not NOTION_TOKEN or not NOTION_DB_ID
Falsy(v) == v = "unset" \/ v = ""

\* a check that stops only when all three values are missing
ConfigMissingAll(e) == Falsy(e.cookie) /\ Falsy(e.token) /\ Falsy(e.db)

ConfigMissing(e) == Falsy(e.cookie) \/ Falsy(e.token) \/ Falsy(e.db)

\* ----------------------------------------------------------- the adapters
\* resp.raise_for_status()
RaisesForStatus(st) == st >= 400 /\ st < 600

\* fetch_page: raised, or the text of the response
fetch_page(res, text) ==
  IF res.err \/ RaisesForStatus(res.status)
  THEN [raised |-> TRUE, text |-> << >>]
  ELSE [raised |-> FALSE, text |-> text]

\* an existence check that raises on a non-success response
ExistsOrRaise(res) ==
  IF res.err \/ res.status # 200 \/ res.body = "notjson"
  THEN [raised |-> TRUE, value |-> FALSE]
  ELSE [raised |-> FALSE, value |-> res.body = "hit"]

\* notion_page_exists: raised, or the boolean returned
notion_page_exists(res) ==
  IF res.err THEN [raised |-> TRUE, value |-> FALSE]
  ELSE IF res.status # 200 THEN [raised |-> FALSE, value |-> FALSE]
  ELSE IF res.body = "notjson" THEN [raised |-> TRUE, value |-> FALSE]
  ELSE [raised |-> FALSE, value |-> res.body = "hit"]

\* create_notion_page: raised, or returned (None); saved tells what it printed
create_notion_page(res) ==
  IF res.err THEN [raised |-> TRUE, saved |-> FALSE]
  ELSE [raised |-> FALSE, saved |-> res.status = 200]

\* ------------------------------------------------------------------- main
\* a loop that skips the posts the store does not know
SkipInverted(exists) == ~exists

\* a loop that never skips
SkipNever(exists) == FALSE

\* if notion_page_exists(url): continue
SkipPost(exists) == exists

\* new_count += 1, after create_notion_page has returned
Counted(n, created) == n + 1

\* the for loop over pages moves on, or ends and main prints the summary
NextPage ==
  IF page < max_page
  THEN pc' = "fetch" /\ page' = page + 1
  ELSE pc' = "done" /\ page' = page

\* the for loop over posts moves on, or ends and the page loop moves on
NextPost ==
  IF idx < Len(posts)
  THEN pc' = "exists" /\ idx' = idx + 1 /\ page' = page
  ELSE idx' = idx /\ NextPage

Init ==
  /\ pc = "start"
  /\ env \in [cookie : EnvValues, token : EnvValues, db : EnvValues]
  /\ page = 0
  /\ html = << >>
  /\ posts = << >>
  /\ idx = 0
  /\ new_count = 0
  /\ store \in SUBSET FeedUrls
  /\ lastCall = NoCall
  /\ saved = 0
  /\ savedUrls = {}
  /\ creates = 0
  /\ answers = "none"
  /\ faithful = TRUE
  /\ fetchFailed = FALSE
  /\ fetched = {}

\* the module level: the configuration check, then main() up to the loop
Startup ==
  /\ pc = "start"
  /\ IF ConfigMissing(env)
     THEN pc' = "aborted" /\ page' = page
     ELSE pc' = "fetch" /\ page' = 1
  /\ UNCHANGED <<env, html, posts, idx, new_count, store, lastCall, saved,
                 savedUrls, creates, answers, faithful, fetchFailed,
                 fetched>>

\* one turn of the page loop up to the loop over posts
Fetch ==
  /\ pc = "fetch"
  /\ \E st \in FetchStatuses, text \in Feed, err \in BOOLEAN :
       LET res == IF err THEN NoResponse ELSE Response(st, "markup")
           r == fetch_page(res, text)
       IN  /\ lastCall' = [NoCall EXCEPT !.kind = "fetch", !.page = page,
                                         !.status = res.status,
                                         !.ok = ~r.raised]
           /\ fetched' = fetched \cup {page}
           /\ IF r.raised
              THEN /\ fetchFailed' = TRUE
                   /\ NextPage
                   /\ UNCHANGED <<html, posts, idx>>
              ELSE /\ html' = r.text
                   /\ posts' = parse_posts(r.text)
                   /\ fetchFailed' = fetchFailed
                   /\ IF posts' = << >>
                      THEN NextPage /\ idx' = idx
                      ELSE pc' = "exists" /\ idx' = 1 /\ page' = page
  /\ UNCHANGED <<env, new_count, store, saved, savedUrls, creates, answers,
                 faithful>>

\* url = p["url"]; if notion_page_exists(url): continue
Exists ==
  /\ pc = "exists"
  /\ \E res \in QueryResponses :
       LET url == posts[idx].url
           r == notion_page_exists(res)
           truth == url \in store
       IN  /\ lastCall' = [NoCall EXCEPT !.kind = "query", !.page = page,
                                         !.url = url,
                                         !.status = res.status,
                                         !.known = truth,
                                         !.ok = ~res.err /\ res.status = 200,
                                         !.answer = ~r.raised /\ r.value]
           /\ faithful' = (faithful /\ ~r.raised /\ res.status = 200
                                    /\ r.value = truth)
           /\ IF r.raised
              THEN /\ pc' = "crashed"
                   /\ UNCHANGED <<page, idx, answers>>
              ELSE /\ answers' = IF r.value /\ answers # "mixed"
                                 THEN "allTrue" ELSE "mixed"
                   /\ IF SkipPost(r.value)
                      THEN NextPost
                      ELSE pc' = "create" /\ UNCHANGED <<page, idx>>
  /\ UNCHANGED <<env, html, posts, new_count, store, saved, savedUrls,
                 creates, fetchFailed, fetched>>

\* create_notion_page(p["title"], p["blogger"], url); new_count += 1
Create ==
  /\ pc = "create"
  /\ \E res \in CreateResponses :
       LET p == posts[idx]
           r == create_notion_page(res)
       IN  /\ lastCall' = [NoCall EXCEPT !.kind = "create", !.page = page,
                                         !.url = p.url, !.title = p.title,
                                         !.blogger = p.blogger,
                                         !.status = res.status,
                                         !.known = p.url \in store,
                                         !.queried = lastCall.status,
                                         !.ok = r.saved]
           /\ creates' = creates + 1
           /\ saved' = IF r.saved THEN saved + 1 ELSE saved
           /\ savedUrls' = IF r.saved THEN savedUrls \cup {p.url} ELSE savedUrls
           /\ store' = IF r.saved THEN store \cup {p.url} ELSE store
           /\ IF r.raised
              THEN /\ pc' = "crashed"
                   /\ UNCHANGED <<page, idx, new_count>>
              ELSE /\ new_count' = Counted(new_count, r.saved)
                   /\ NextPost
  /\ UNCHANGED <<env, html, posts, answers, faithful, fetchFailed, fetched>>

Next == Startup \/ Fetch \/ Exists \/ Create

Spec == Init /\ [][Next]_vars

\* ------------------------------------ parse_posts on its own, on any markup
InitParse ==
  /\ pc = "markup"
  /\ env = [cookie |-> "v", token |-> "v", db |-> "v"]
  /\ page = 1
  /\ html \in Markups
  /\ posts = << >>
  /\ idx = 0
  /\ new_count = 0
  /\ store = {}
  /\ lastCall = NoCall
  /\ saved = 0
  /\ savedUrls = {}
  /\ creates = 0
  /\ answers = "none"
  /\ faithful = TRUE
  /\ fetchFailed = FALSE
  /\ fetched = {}

Parse ==
  /\ pc = "markup"
  /\ posts' = parse_posts(html)
  /\ pc' = "parsed"
  /\ UNCHANGED <<env, page, html, idx, new_count, store, lastCall, saved,
                 savedUrls, creates, answers, faithful, fetchFailed,
                 fetched>>

NextParse == Parse

SpecParse == InitParse /\ [][NextParse]_vars

TypeOK ==
  /\ pc \in {"start", "aborted", "fetch", "exists", "create", "done",
             "crashed", "markup", "parsed"}
  /\ page \in 0..max_page
  /\ idx \in 0..MaxLinks
  /\ new_count \in Nat

\* ------------------------------------------------------------- properties
Terminated == pc \in {"done", "crashed"}

\* the hyperlinks of a markup that point at the blog host, and those of them
\* that the scan keeps
HostLinks(h) == {i \in DOMAIN h : HasHost(h[i].href)}
KeptLinks(h) == {i \in HostLinks(h) : Strip(h[i].text) # << >>}
UrlsOf(h, I) == {CleanUrl(h[i].href) : i \in I}
PostUrls == {posts[k].url : k \in DOMAIN posts}

\* the last kept link of h whose cleaned url is u
LastLink(h, u) ==
  CHOOSE i \in KeptLinks(h) :
    /\ CleanUrl(h[i].href) = u
    /\ \A j \in KeptLinks(h) : CleanUrl(h[j].href) = u => j <= i

\* C1: at the end of a run the reported count is the number of creation
\* calls that succeeded.
C1_CountIsSaved == pc = "done" => new_count = saved

\* C2: once the configuration check has passed, no failure of an external
\* call propagates out of main: the process never dies of an exception.
C2_NothingPropagates ==
  (env.cookie = "v" /\ env.token = "v" /\ env.db = "v") => pc # "crashed"

\* C3 as stated: the posts returned are as many as the distinct cleaned urls
\* of the blog hyperlinks of the markup, one per url.
C3_OnePerHyperlinkUrl ==
  pc = "parsed" =>
    /\ Len(posts) = Cardinality(UrlsOf(html, HostLinks(html)))
    /\ PostUrls = UrlsOf(html, HostLinks(html))

\* C3 amended: the posts returned are as many as the distinct cleaned urls of
\* the blog hyperlinks with a non-empty trimmed text, one per url.
C3_OnePerKeptUrl ==
  pc = "parsed" =>
    /\ Len(posts) = Cardinality(UrlsOf(html, KeptLinks(html)))
    /\ PostUrls = UrlsOf(html, KeptLinks(html))

C3_Witness ==
  /\ pc = "parsed"
  /\ Cardinality(KeptLinks(html)) = 2
  /\ Len(posts) = 1

\* C4: when a fetch fails the page makes no store call, and every page of
\* 1..max_page is still fetched by the time the run is over.
C4_OtherPagesFetched ==
  /\ (lastCall.kind = "fetch" /\ ~lastCall.ok) => pc \in {"fetch", "done"}
  /\ (Terminated /\ fetchFailed) => fetched = 1..max_page

\* C5: as long as every existence check has answered true, no creation call
\* has been issued and the counter is 0.
C5_Idempotent == answers # "mixed" => creates = 0 /\ new_count = 0

C5_Witness ==
  /\ pc = "done"
  /\ answers = "allTrue"
  /\ lastCall.kind = "query"
  /\ creates = 0

\* C6: an existence query answered with a non-success status makes
\* notion_page_exists return false without raising, and the next call is the
\* creation call for that same url.
C6_FailOpen ==
  [][/\ (pc = "exists" /\ lastCall'.status \notin {0, 200}) =>
          /\ pc' = "create"
          /\ ~lastCall'.answer
          /\ idx' = idx
          /\ lastCall'.url = posts[idx].url
     /\ pc = "create" =>
          /\ lastCall'.kind = "create"
          /\ lastCall'.url = posts[idx].url
          /\ creates' = creates + 1]_vars

C6_Witness ==
  /\ lastCall.kind = "create"
  /\ lastCall.queried = 429
  /\ lastCall.known

\* C7: one post per url, carrying the title and the blogger of the last kept
\* link with that url; the links .../alice/123?from=home "Hi" and
\* .../alice/123 " Hi2" give the single post (Hi2, .../alice/123, alice).
C7_LastWriteWins ==
  pc = "parsed" =>
    /\ \A u \in UrlsOf(html, KeptLinks(html)) :
         /\ Cardinality({k \in DOMAIN posts : posts[k].url = u}) = 1
         /\ \A k \in DOMAIN posts :
              posts[k].url = u =>
                /\ posts[k].title = Truncate(Strip(html[LastLink(html, u)].text))
                /\ posts[k].blogger = Blogger(u)
    /\ html = <<LinkQuery, LinkPlain>> =>
         posts = <<[title |-> <<"H", "i", "2">>,
                    url |-> Scheme \o <<Host, "/", "alice", "/", "123">>,
                    blogger |-> <<"alice">>]>>

C7_Witness ==
  /\ pc = "parsed"
  /\ html = <<LinkQuery, LinkPlain>>
  /\ Len(posts) = 1
  /\ posts[1].title = <<"H", "i", "2">>

\* C8: with a required configuration value unset or empty the program stops
\* at the check: no fetch, no query and no creation call is ever issued.
C8_FailFast ==
  (\E v \in {env.cookie, env.token, env.db} : v \in {"unset", ""}) =>
    /\ pc \in {"start", "aborted"}
    /\ lastCall.kind = "none"
    /\ fetched = {}
    /\ creates = 0

C8_Witness == pc = "aborted" /\ env.cookie = "v" /\ env.token = ""

\* C9: the title of a creation call is the trimmed text of the last kept link
\* with the url, cut to 200 characters when longer, unchanged otherwise, and
\* it is not empty.
C9_TitleSent ==
  lastCall.kind = "create" =>
    LET t == Strip(html[LastLink(html, lastCall.url)].text)
    IN  /\ lastCall.title # << >>
        /\ Len(t) > TitleMax => lastCall.title = SubSeq(t, 1, TitleMax)
        /\ Len(t) <= TitleMax => lastCall.title = t

C9_Witness ==
  /\ lastCall.kind = "create"
  /\ html = <<LinkLong>>
  /\ Len(lastCall.title) = TitleMax

\* C10: while every existence query has got the store's true answer, no url
\* has been created twice; and a creation call always follows an existence
\* query for the same url that answered false.
C10_CreatedOnce ==
  /\ [](faithful => saved = Cardinality(savedUrls))
  /\ [][creates' # creates =>
          /\ lastCall.kind = "query"
          /\ ~lastCall.answer
          /\ lastCall'.kind = "create"
          /\ lastCall'.url = lastCall.url]_vars

C10_Witness ==
  /\ faithful
  /\ lastCall.kind = "query"
  /\ lastCall.answer
  /\ lastCall.url \in savedUrls

====
